---- MODULE Spec2Model ----
\* Byte-oriented parser combinators of src/common/parser.rs.
\*
\* A parser is a function from an input slice to a ParseResult.  The
\* combinators are higher-order functions, so a parser expression is
\* represented by its syntax tree (a record whose field k names the
\* function that built it) and Apply runs such a tree on an input, calling the
\* operator that models the corresponding Rust function.
\*
\* Slices are sequences of bytes; Rust's zero-based input[i..] and input[..i]
\* are From(input, i) and To(input, i).
EXTENDS Integers, Sequences, FiniteSets, TLC

\* ---------------------------------------------------------------- bounds
MaxLen == 3        \* longest input slice
MaxByte == 2       \* bytes are 1..MaxByte
MaxCnt == 4        \* largest cnt given to take
MaxLit == 2        \* longest literal given to bytes
MaxCalls == 6      \* cap on the parser applications of one loop run

Bytes == 1..MaxByte

RECURSIVE SeqsUpTo(_, _)
SeqsUpTo(S, n) ==
    IF n = 0 THEN {<<>>}
    ELSE LET shorter == SeqsUpTo(S, n - 1)
         IN  shorter \cup {Append(s, b) : s \in shorter, b \in S}

Inputs == SeqsUpTo(Bytes, MaxLen)
Lits == SeqsUpTo(Bytes, MaxLit)
\* a predicate FnMut(u8) -> bool is the set of bytes it accepts
Preds == SUBSET Bytes

\* ---------------------------------------------------------------- results
Ok(rest, val) == [tag |-> "Ok", rest |-> rest, val |-> val]
Err(reason) == [tag |-> "Err", err |-> reason]
\* the call never returns (a loop that makes no progress)
Hang == [tag |-> "Hang"]

Unit == <<>>
None == <<>>
Some(v) == <<v>>

From(s, i) == SubSeq(s, i + 1, Len(s))
To(s, i) == SubSeq(s, 1, i)
starts_with(s, prefix) == Len(prefix) <= Len(s) /\ To(s, Len(prefix)) = prefix

\* the caller's function given to map: an uninterpreted constructor
F(v) == <<"f", v>>

\* ------------------------------------------------------- parser expressions
Empty == [k |-> "empty"]
NotEmpty == [k |-> "not_empty"]
ParseFail == [k |-> "parse_fail"]
TakeAll == [k |-> "take_all"]
Byte(b) == [k |-> "byte", byte |-> b]
BytesOf(lit) == [k |-> "bytes", bytes |-> lit]
Take(cnt) == [k |-> "take", cnt |-> cnt]
TakeUntilByte(pr) == [k |-> "take_until_byte", predicate |-> pr]
TakeUntilByte1(pr) == [k |-> "take_until_byte_1", predicate |-> pr]
RTakeUntilByte(pr) == [k |-> "rtake_until_byte", predicate |-> pr]
RTakeUntilByte1(pr) == [k |-> "rtake_until_byte_1", predicate |-> pr]
FullyConsumed(p) == [k |-> "fully_consumed", parser |-> p]
Map(p) == [k |-> "map", parser |-> p]
Maybe(p) == [k |-> "maybe", parser |-> p]
Not(p) == [k |-> "not", parser |-> p]
Peek(p) == [k |-> "peek", parser |-> p]
OneOrMore(p) == [k |-> "one_or_more", parser |-> p]
ZeroOrMore(p) == [k |-> "zero_or_more", parser |-> p]
TakeWhile(p) == [k |-> "take_while", parser |-> p]
TakeWhile1(p) == [k |-> "take_while_1", parser |-> p]
Prefixed(p, q) == [k |-> "prefixed", prefix |-> p, parser |-> q]
Suffixed(p, q) == [k |-> "suffixed", parser |-> p, suffix |-> q]
Divided(l, m, r) == [k |-> "divided", left |-> l, middle |-> m, right |-> r]
AnyOf(ps) == [k |-> "any_of", parsers |-> ps]

RECURSIVE Apply(_, _)

\* ---------------------------------------------------------------- base
empty(input) ==
    IF input = <<>> THEN Ok(input, Unit) ELSE Err("not empty")

parse_fail(input) == Err("bad parser")

take_all(input) == Ok(<<>>, input)

\* ------------------------------------------------- optionality, lookahead
\* a maybe that lets the failure through
maybe_match_propagating(r, input) ==
    CASE r.tag = "Ok" -> Ok(r.rest, Some(r.val))
      [] r.tag = "Err" -> r
      [] OTHER -> Hang

\* the match of maybe on the result r of parser(input)
maybe_match(r, input) ==
    CASE r.tag = "Ok" -> Ok(r.rest, Some(r.val))
      [] r.tag = "Err" -> Ok(input, None)
      [] OTHER -> Hang

maybe(parser, input) == maybe_match(Apply(parser, input), input)

not_match(r, input) ==
    CASE r.tag = "Ok" -> Err("parser succeeded")
      [] r.tag = "Err" -> Ok(input, Unit)
      [] OTHER -> Hang

not(parser, input) == not_match(Apply(parser, input), input)

\* a peek that keeps the parser's remaining input
peek_match_consuming(r, input) == IF r.tag = "Ok" THEN Ok(r.rest, r.val) ELSE r

peek_match(r, input) == IF r.tag = "Ok" THEN Ok(input, r.val) ELSE r

peek(parser, input) == peek_match(Apply(parser, input), input)

not_empty(input) == not(Empty, input)

\* ---------------------------------------------------------------- sequencing
fully_consumed(parser, input) ==
    LET r == Apply(parser, input)
    IN  IF r.tag # "Ok" THEN r
        ELSE LET e == empty(r.rest)
             IN  IF e.tag # "Ok" THEN e ELSE Ok(e.rest, r.val)

map(parser, input) ==
    LET r == Apply(parser, input)
    IN  IF r.tag # "Ok" THEN r ELSE Ok(r.rest, F(r.val))

divided(left, middle, right, input) ==
    LET r1 == Apply(left, input)
    IN  IF r1.tag # "Ok" THEN r1
        ELSE LET r2 == Apply(middle, r1.rest)
             IN  IF r2.tag # "Ok" THEN r2
                 ELSE LET r3 == Apply(right, r2.rest)
                      IN  IF r3.tag # "Ok" THEN r3
                          ELSE Ok(r3.rest, <<r1.val, r3.val>>)

prefixed(prefix, parser, input) ==
    LET r1 == Apply(prefix, input)
    IN  IF r1.tag # "Ok" THEN r1
        ELSE LET r2 == Apply(parser, r1.rest)
             IN  IF r2.tag # "Ok" THEN r2 ELSE Ok(r2.rest, r2.val)

suffixed(parser, suffix, input) ==
    LET r1 == Apply(parser, input)
    IN  IF r1.tag # "Ok" THEN r1
        ELSE LET r2 == Apply(suffix, r1.rest)
             IN  IF r2.tag # "Ok" THEN r2 ELSE Ok(r2.rest, r1.val)

RECURSIVE any_of(_, _)
any_of(parsers, input) ==
    IF parsers = <<>> THEN Err("No parser succeeded")
    ELSE LET r == Apply(Head(parsers), input)
         IN  CASE r.tag = "Ok" -> r
               [] r.tag = "Err" -> any_of(Tail(parsers), input)
               [] OTHER -> Hang

\* ---------------------------------------------------------------- repetition
\* The state of the while-let loop of one_or_more: next (always Some at the
\* loop head), results, and at = "loop" | "break" | "hang".
one_or_more_init(input) == [at |-> "loop", next |-> input, results |-> <<>>]

\* a pass that pushes the value and retries the same input
one_or_more_iter_no_advance(parser, st) ==
    LET r == Apply(parser, st.next)
    IN  CASE r.tag = "Ok" ->
               [at |-> "loop", next |-> st.next, results |-> Append(st.results, r.val)]
          [] r.tag = "Err" ->
               [at |-> "break", next |-> st.next, results |-> st.results]
          [] OTHER -> [at |-> "hang", next |-> st.next, results |-> st.results]

\* one pass through the loop body
one_or_more_iter(parser, st) ==
    LET r == Apply(parser, st.next)
    IN  CASE r.tag = "Ok" ->
               [at |-> "loop", next |-> r.rest, results |-> Append(st.results, r.val)]
          [] r.tag = "Err" ->
               [at |-> "break", next |-> st.next, results |-> st.results]
          [] OTHER -> [at |-> "hang", next |-> st.next, results |-> st.results]

\* a tail without the check for an empty results
one_or_more_tail_unchecked(st) == Ok(st.next, st.results)

\* the code after the loop
one_or_more_tail(st) ==
    IF st.results = <<>> THEN Err("Parser failed to suceed once")
    ELSE Ok(st.next, st.results)

\* The loop run to its end.  The parser is a pure function of its input, so a
\* pass that succeeds and leaves next unchanged repeats forever.
RECURSIVE one_or_more_run(_, _)
one_or_more_run(parser, st) ==
    LET st2 == one_or_more_iter(parser, st)
    IN  CASE st2.at = "hang" -> Hang
          [] st2.at = "break" -> one_or_more_tail(st2)
          [] OTHER -> IF st2.next = st.next THEN Hang
                      ELSE one_or_more_run(parser, st2)

one_or_more(parser, input) == one_or_more_run(parser, one_or_more_init(input))

\* unwrap_or_default of the Option<Vec<T>> that maybe(one_or_more(..)) returns
zero_or_more_unwrap(r) ==
    IF r.tag # "Ok" THEN r
    ELSE Ok(r.rest, IF r.val = None THEN <<>> ELSE r.val[1])

zero_or_more(parser, input) == zero_or_more_unwrap(maybe(OneOrMore(parser), input))

\* The state of the while loop of take_while: i and at.
take_while_init(input) == [at |-> "loop", i |-> 0]

\* a pass that advances by one byte whatever the parser consumed
take_while_iter_by_one(parser, input, st) ==
    LET r == Apply(parser, From(input, st.i))
    IN  CASE r.tag = "Ok" -> [at |-> "loop", i |-> st.i + 1]
          [] r.tag = "Err" -> [at |-> "break", i |-> st.i]
          [] OTHER -> [at |-> "hang", i |-> st.i]

\* one pass through the loop body (entered when i < len)
take_while_iter(parser, input, st) ==
    LET len == Len(input)
        r == Apply(parser, From(input, st.i))
    IN  CASE r.tag = "Ok" ->
               LET available_len == len - st.i
                   consumed_len == available_len - Len(r.rest)
               IN  [at |-> "loop", i |-> st.i + consumed_len]
          [] r.tag = "Err" -> [at |-> "break", i |-> st.i]
          [] OTHER -> [at |-> "hang", i |-> st.i]

\* the code after the loop
take_while_tail(input, st) ==
    LET len == Len(input)
    IN  IF st.i = len THEN Ok(<<>>, input)
        ELSE IF st.i = 0 THEN Ok(input, <<>>)
        ELSE Ok(From(input, st.i), To(input, st.i))

RECURSIVE take_while_run(_, _, _)
take_while_run(parser, input, st) ==
    IF ~(st.i < Len(input)) THEN take_while_tail(input, st)
    ELSE LET st2 == take_while_iter(parser, input, st)
         IN  CASE st2.at = "hang" -> Hang
               [] st2.at = "break" -> take_while_tail(input, st2)
               [] OTHER -> IF st2.i = st.i THEN Hang
                           ELSE take_while_run(parser, input, st2)

take_while(parser, input) ==
    IF input = <<>> THEN Err("Empty input")
    ELSE take_while_run(parser, input, take_while_init(input))

take_while_1(parser, input) ==
    LET r == take_while(parser, input)
    IN  IF r.tag # "Ok" THEN r
        ELSE IF r.val = <<>> THEN Err("did not consume 1 byte")
        ELSE Ok(r.rest, r.val)

\* ---------------------------------------------------------------- scanners
\* input.iter().enumerate().find(..): the zero-based positions that match
Matches(predicate, input) == {i \in 0..(Len(input) - 1) : input[i + 1] \in predicate}
FindFirst(predicate, input) ==
    CHOOSE i \in Matches(predicate, input) : \A j \in Matches(predicate, input) : i <= j
FindLast(predicate, input) ==
    CHOOSE i \in Matches(predicate, input) : \A j \in Matches(predicate, input) : i >= j

\* a forward scan that stops at the last match
take_until_byte_last(predicate, input) ==
    IF Matches(predicate, input) # {}
    THEN LET i == FindLast(predicate, input)
         IN  Ok(From(input, i), To(input, i))
    ELSE Ok(<<>>, input)

take_until_byte(predicate, input) ==
    IF Matches(predicate, input) # {}
    THEN LET i == FindFirst(predicate, input)
         IN  Ok(From(input, i), To(input, i))
    ELSE Ok(<<>>, input)

take_until_byte_1(predicate, input) ==
    LET r == take_until_byte(predicate, input)
    IN  IF r.tag # "Ok" THEN r
        ELSE IF r.val = <<>> THEN Err("did not consume 1 byte")
        ELSE Ok(r.rest, r.val)

\* a backward scan that returns the part up to and including the match as
\* the remaining input
rtake_until_byte_inclusive(predicate, input) ==
    IF Matches(predicate, input) # {}
    THEN LET i == FindLast(predicate, input)
         IN  Ok(To(input, i + 1), From(input, i + 1))
    ELSE Ok(<<>>, input)

rtake_until_byte(predicate, input) ==
    IF Matches(predicate, input) # {}
    THEN LET i == FindLast(predicate, input)
         IN  Ok(From(input, i), To(input, i))
    ELSE Ok(<<>>, input)

rtake_until_byte_1(predicate, input) ==
    LET r == rtake_until_byte(predicate, input)
    IN  IF r.tag # "Ok" THEN r
        ELSE IF r.val = <<>> THEN Err("did not consume 1 byte")
        ELSE Ok(r.rest, r.val)

\* a take that refuses to take the whole input
take_strict(cnt, input) ==
    IF cnt = 0 THEN Err("take(cnt) cannot have cnt == 0")
    ELSE IF cnt >= Len(input) THEN Err("take(cnt) not enough bytes")
    ELSE Ok(From(input, cnt), To(input, cnt))

take(cnt, input) ==
    IF cnt = 0 THEN Err("take(cnt) cannot have cnt == 0")
    ELSE IF cnt > Len(input) THEN Err("take(cnt) not enough bytes")
    ELSE Ok(From(input, cnt), To(input, cnt))

bytes(lit, input) ==
    IF input = <<>> THEN Err("Empty input")
    ELSE IF Len(input) < Len(lit) THEN Err("Not enough bytes")
    ELSE IF starts_with(input, lit)
         THEN Ok(From(input, Len(lit)), To(input, Len(lit)))
         ELSE Err("Wrong bytes")

byte(b, input) ==
    IF input = <<>> THEN Err("Empty input")
    ELSE IF starts_with(input, <<b>>) THEN Ok(From(input, 1), b)
    ELSE Err("Wrong byte")

\* ---------------------------------------------------------------- dispatch
Apply(p, input) ==
    CASE p.k = "empty" -> empty(input)
      [] p.k = "not_empty" -> not_empty(input)
      [] p.k = "parse_fail" -> parse_fail(input)
      [] p.k = "take_all" -> take_all(input)
      [] p.k = "byte" -> byte(p.byte, input)
      [] p.k = "bytes" -> bytes(p.bytes, input)
      [] p.k = "take" -> take(p.cnt, input)
      [] p.k = "take_until_byte" -> take_until_byte(p.predicate, input)
      [] p.k = "take_until_byte_1" -> take_until_byte_1(p.predicate, input)
      [] p.k = "rtake_until_byte" -> rtake_until_byte(p.predicate, input)
      [] p.k = "rtake_until_byte_1" -> rtake_until_byte_1(p.predicate, input)
      [] p.k = "fully_consumed" -> fully_consumed(p.parser, input)
      [] p.k = "map" -> map(p.parser, input)
      [] p.k = "maybe" -> maybe(p.parser, input)
      [] p.k = "not" -> not(p.parser, input)
      [] p.k = "peek" -> peek(p.parser, input)
      [] p.k = "one_or_more" -> one_or_more(p.parser, input)
      [] p.k = "zero_or_more" -> zero_or_more(p.parser, input)
      [] p.k = "take_while" -> take_while(p.parser, input)
      [] p.k = "take_while_1" -> take_while_1(p.parser, input)
      [] p.k = "prefixed" -> prefixed(p.prefix, p.parser, input)
      [] p.k = "suffixed" -> suffixed(p.parser, p.suffix, input)
      [] p.k = "divided" -> divided(p.left, p.middle, p.right, input)
      [] p.k = "any_of" -> any_of(p.parsers, input)

\* ---------------------------------------------------------------- universe
\* The parser expressions the operations are applied to.
Prims ==
    {Empty, NotEmpty, ParseFail, TakeAll}
    \cup {Byte(b) : b \in Bytes}
    \cup {BytesOf(lit) : lit \in Lits}
    \cup {Take(cnt) : cnt \in 0..MaxCnt}
    \cup {TakeUntilByte(pr) : pr \in Preds}
    \cup {TakeUntilByte1(pr) : pr \in Preds}
    \cup {RTakeUntilByte(pr) : pr \in Preds}
    \cup {RTakeUntilByte1(pr) : pr \in Preds}

Core ==
    {Empty, ParseFail, TakeAll, Take(1), BytesOf(<<>>), Byte(1), Byte(MaxByte),
     TakeUntilByte1({MaxByte})}

Unary(S) ==
    {FullyConsumed(p) : p \in S} \cup {Map(p) : p \in S}
    \cup {Maybe(p) : p \in S} \cup {Not(p) : p \in S} \cup {Peek(p) : p \in S}
    \cup {OneOrMore(p) : p \in S} \cup {ZeroOrMore(p) : p \in S}
    \cup {TakeWhile(p) : p \in S} \cup {TakeWhile1(p) : p \in S}

Binary(S) ==
    {Prefixed(p, q) : p \in S, q \in S}
    \cup {Suffixed(p, q) : p \in S, q \in S}
    \cup {AnyOf(<<p, q>>) : p \in S, q \in S}

Level1 == Prims \cup Unary(Core) \cup Binary(Core)
LoopArgs == Prims \cup Binary(Core)

\* ---------------------------------------------------------------- state
VARIABLES
    pc,        \* "idle", "done" (returned), "diverged" (never returns), or the loop being run
    input,     \* the slice the caller passes
    parser,    \* the parser expression being applied
    outcome,   \* the ParseResult returned
    loop,      \* the locals of the running loop
    calls      \* parser applications made by the running loop

vars == <<pc, input, parser, outcome, loop, calls>>

NoParser == [k |-> "none"]
NoOutcome == [tag |-> "None"]
NoLoop == [at |-> "none"]

Init ==
    /\ pc = "idle"
    /\ input \in Inputs
    /\ parser = NoParser
    /\ outcome = NoOutcome
    /\ loop = NoLoop
    /\ calls = 0

\* the caller applies p to input and gets r back, unless the call never returns
Return(p, r) ==
    /\ pc = "idle"
    /\ parser' = p
    /\ IF r.tag = "Hang"
       THEN pc' = "diverged" /\ outcome' = NoOutcome
       ELSE pc' = "done" /\ outcome' = r
    /\ UNCHANGED <<input, loop, calls>>

Call_empty == Return(Empty, empty(input))
Call_not_empty == Return(NotEmpty, not_empty(input))
Call_parse_fail == Return(ParseFail, parse_fail(input))
Call_take_all == Return(TakeAll, take_all(input))
Call_byte == \E b \in Bytes : Return(Byte(b), byte(b, input))
Call_bytes == \E lit \in Lits : Return(BytesOf(lit), bytes(lit, input))
Call_take == \E cnt \in 0..MaxCnt : Return(Take(cnt), take(cnt, input))
Call_take_until_byte ==
    \E pr \in Preds : Return(TakeUntilByte(pr), take_until_byte(pr, input))
Call_take_until_byte_1 ==
    \E pr \in Preds : Return(TakeUntilByte1(pr), take_until_byte_1(pr, input))
Call_rtake_until_byte ==
    \E pr \in Preds : Return(RTakeUntilByte(pr), rtake_until_byte(pr, input))
Call_rtake_until_byte_1 ==
    \E pr \in Preds : Return(RTakeUntilByte1(pr), rtake_until_byte_1(pr, input))
Call_fully_consumed ==
    \E p \in Level1 : Return(FullyConsumed(p), fully_consumed(p, input))
Call_map == \E p \in Level1 : Return(Map(p), map(p, input))
Call_maybe == \E p \in Level1 : Return(Maybe(p), maybe(p, input))
Call_not == \E p \in Level1 : Return(Not(p), not(p, input))
Call_peek == \E p \in Level1 : Return(Peek(p), peek(p, input))
Call_one_or_more == \E p \in Level1 : Return(OneOrMore(p), one_or_more(p, input))
Call_zero_or_more == \E p \in Level1 : Return(ZeroOrMore(p), zero_or_more(p, input))
Call_take_while == \E p \in Level1 : Return(TakeWhile(p), take_while(p, input))
Call_take_while_1 == \E p \in Level1 : Return(TakeWhile1(p), take_while_1(p, input))
Call_prefixed ==
    \E p \in Prims, q \in Core : Return(Prefixed(p, q), prefixed(p, q, input))
Call_suffixed ==
    \E p \in Prims, q \in Core : Return(Suffixed(p, q), suffixed(p, q, input))
Call_divided ==
    \E l \in Core, m \in Core, r \in Core :
        Return(Divided(l, m, r), divided(l, m, r, input))
Call_any_of ==
    \E ps \in {<<p>> : p \in Prims} \cup {<<p, q>> : p \in Prims, q \in Core} :
        Return(AnyOf(ps), any_of(ps, input))

Next ==
    \/ Call_empty \/ Call_not_empty \/ Call_parse_fail \/ Call_take_all
    \/ Call_byte \/ Call_bytes \/ Call_take
    \/ Call_take_until_byte \/ Call_take_until_byte_1
    \/ Call_rtake_until_byte \/ Call_rtake_until_byte_1
    \/ Call_fully_consumed \/ Call_map \/ Call_maybe \/ Call_not \/ Call_peek
    \/ Call_one_or_more \/ Call_zero_or_more
    \/ Call_take_while \/ Call_take_while_1
    \/ Call_prefixed \/ Call_suffixed \/ Call_divided \/ Call_any_of

Spec == Init /\ [][Next]_vars

\* ------------------------------------------------ the repetition loops, pass by pass
\* one_or_more, zero_or_more and take_while run one pass of their loop per
\* step; calls counts the applications of the argument parser.
Enter_one_or_more ==
    /\ pc = "idle"
    /\ \E p \in LoopArgs : parser' = OneOrMore(p)
    /\ loop' = one_or_more_init(input)
    /\ pc' = "one_or_more"
    /\ UNCHANGED <<input, outcome, calls>>

\* zero_or_more runs the loop of one_or_more inside maybe
Enter_zero_or_more ==
    /\ pc = "idle"
    /\ \E p \in LoopArgs : parser' = ZeroOrMore(p)
    /\ loop' = one_or_more_init(input)
    /\ pc' = "one_or_more"
    /\ UNCHANGED <<input, outcome, calls>>

Iter_one_or_more ==
    /\ pc = "one_or_more"
    /\ calls < MaxCalls
    /\ LET st2 == one_or_more_iter(parser.parser, loop)
       IN  /\ st2.at # "hang"
           /\ loop' = st2
           /\ IF st2.at = "break"
              THEN /\ pc' = "done"
                   /\ outcome' =
                        IF parser.k = "one_or_more" THEN one_or_more_tail(st2)
                        ELSE zero_or_more_unwrap(maybe_match(one_or_more_tail(st2), input))
              ELSE UNCHANGED <<pc, outcome>>
    /\ calls' = calls + 1
    /\ UNCHANGED <<input, parser>>

Enter_take_while ==
    /\ pc = "idle"
    /\ \E p \in LoopArgs : parser' = TakeWhile(p)
    /\ IF input = <<>>
       THEN pc' = "done" /\ outcome' = Err("Empty input") /\ UNCHANGED loop
       ELSE pc' = "take_while" /\ loop' = take_while_init(input) /\ UNCHANGED outcome
    /\ UNCHANGED <<input, calls>>

Iter_take_while ==
    /\ pc = "take_while"
    /\ loop.i < Len(input)
    /\ calls < MaxCalls
    /\ LET st2 == take_while_iter(parser.parser, input, loop)
       IN  /\ st2.at # "hang"
           /\ loop' = st2
           /\ IF st2.at = "break"
              THEN pc' = "done" /\ outcome' = take_while_tail(input, st2)
              ELSE UNCHANGED <<pc, outcome>>
    /\ calls' = calls + 1
    /\ UNCHANGED <<input, parser>>

Exit_take_while ==
    /\ pc = "take_while"
    /\ ~(loop.i < Len(input))
    /\ pc' = "done"
    /\ outcome' = take_while_tail(input, loop)
    /\ UNCHANGED <<input, parser, loop, calls>>

LoopNext ==
    \/ Enter_one_or_more \/ Enter_zero_or_more \/ Iter_one_or_more
    \/ Enter_take_while \/ Iter_take_while \/ Exit_take_while

\* The code is sequential: a loop that can make its next pass makes it.
LoopSpec ==
    /\ Init
    /\ [][LoopNext]_vars
    /\ WF_vars(Iter_one_or_more)
    /\ WF_vars(Iter_take_while)
    /\ WF_vars(Exit_take_while)

\* ---------------------------------------------------------------- properties
Returned == pc = "done"
IsSuffix(r, i) == \E k \in 0..Len(i) : r = From(i, k)

\* p returns on every suffix of i, and each of its successes there consumes
\* at least one byte (the suffixes of i are the only inputs a loop over i
\* applies p to)
Productive(p, i) ==
    \A k \in 0..Len(i) :
        LET r == Apply(p, From(i, k))
        IN  /\ r.tag # "Hang"
            /\ r.tag = "Ok" => Len(r.rest) < Len(i) - k

\* the successive successful applications of p from i on, up to the first
\* failing one: their values in order and the input left after the last
RECURSIVE Chain(_, _)
Chain(p, i) ==
    LET r == Apply(p, i)
    IN  IF r.tag = "Ok"
        THEN LET c == Chain(p, r.rest)
             IN  [vals |-> <<r.val>> \o c.vals, rest |-> c.rest]
        ELSE [vals |-> <<>>, rest |-> i]

\* the number of bytes consumed by the successive successful probes of inner
\* on i[k..], i[k1..], ..., stopping at the first failing probe or at len(i)
RECURSIVE ProbeSum(_, _, _)
ProbeSum(inner, i, k) ==
    IF k = Len(i) THEN k
    ELSE LET r == Apply(inner, From(i, k))
         IN  IF r.tag = "Ok" THEN ProbeSum(inner, i, Len(i) - Len(r.rest)) ELSE k

MaybeRollbackLaw ==
    (pc # "idle" /\ parser.k = "maybe") =>
        LET r == Apply(parser.parser, input)
        IN  /\ Returned => outcome.tag = "Ok"
            /\ r.tag = "Err" => (Returned /\ outcome = Ok(input, None))
            /\ r.tag = "Ok" => (Returned /\ outcome = Ok(r.rest, Some(r.val)))

\* the wrapped parser consumes a prefix and then fails
MaybeRollbackWitness ==
    /\ Returned
    /\ parser.k = "maybe"
    /\ parser.parser.k = "prefixed"
    /\ Apply(parser.parser.prefix, input).tag = "Ok"
    /\ Apply(parser.parser.prefix, input).rest # input
    /\ Apply(parser.parser, input).tag = "Err"
    /\ outcome.rest = input

\* C3: not(p)(i) succeeds, with the unit value and remaining input i, iff
\* p(i) fails, and fails with "parser succeeded" iff p(i) succeeds;
\* peek(p)(i) succeeds, with p's value and remaining input i, iff p(i)
\* succeeds, and otherwise fails with p's own reason.
NotPeekLaw ==
    /\ (pc # "idle" /\ parser.k = "not") =>
          LET r == Apply(parser.parser, input)
          IN  /\ (Returned /\ outcome.tag = "Ok") <=> r.tag = "Err"
              /\ (Returned /\ outcome = Err("parser succeeded")) <=> r.tag = "Ok"
              /\ (Returned /\ outcome.tag = "Ok") => outcome = Ok(input, Unit)
              /\ (Returned /\ outcome.tag = "Err") => outcome.err = "parser succeeded"
    /\ (pc # "idle" /\ parser.k = "peek") =>
          LET r == Apply(parser.parser, input)
          IN  /\ (Returned /\ outcome.tag = "Ok") <=> r.tag = "Ok"
              /\ r.tag = "Ok" => (Returned /\ outcome = Ok(input, r.val))
              /\ r.tag = "Err" => (Returned /\ outcome = r)

\* peek over a parser that consumed something
NotPeekWitness ==
    /\ Returned
    /\ parser.k = "peek"
    /\ outcome.tag = "Ok"
    /\ Apply(parser.parser, input).rest # input

\* C4: take(n) fails when n = 0 and when n > L; when 1 <= n <= L it
\* succeeds with the first n bytes as value and the last L - n bytes as
\* remaining input.
TakeExactness ==
    (Returned /\ parser.k = "take") =>
        LET n == parser.cnt
            L == Len(input)
        IN  /\ n = 0 => outcome.tag = "Err"
            /\ n > L => outcome.tag = "Err"
            /\ (1 <= n /\ n <= L) =>
                  /\ outcome.tag = "Ok"
                  /\ Len(outcome.val) = n
                  /\ \A j \in 1..n : outcome.val[j] = input[j]
                  /\ Len(outcome.rest) = L - n
                  /\ \A j \in 1..(L - n) : outcome.rest[j] = input[n + j]

TakeExactnessWitness ==
    /\ Returned
    /\ parser.k = "take"
    /\ parser.cnt >= 2
    /\ parser.cnt = Len(input)
    /\ outcome.tag = "Ok"
    /\ outcome.rest = <<>>

TakeUntilByteFailsIfNothingConsumed ==
    (Returned /\ parser.k = "take_until_byte") =>
        ((input = <<>> \/ input[1] \in parser.predicate) => outcome.tag = "Err")

\* C7: rtake_until_byte(predicate)(i), with k the largest index whose byte
\* satisfies predicate, returns i[k+1..] as the value and i[..k+1] as the
\* first element; rtake_until_byte_1 returns the same split and fails exactly
\* when i[k+1..] is empty.
RTakeSplitsAfterLastMatch ==
    (Returned /\ parser.k \in {"rtake_until_byte", "rtake_until_byte_1"}) =>
        LET M == {k \in 0..(Len(input) - 1) : input[k + 1] \in parser.predicate}
        IN  \A k \in M :
              (\A j \in M : k >= j) =>
                  IF parser.k = "rtake_until_byte_1" /\ From(input, k + 1) = <<>>
                  THEN outcome.tag = "Err"
                  ELSE outcome = Ok(To(input, k + 1), From(input, k + 1))

\* C8: for p productive, zero_or_more(p)(i) always succeeds; it returns an
\* empty sequence and i exactly when one_or_more(p)(i) fails, which is when
\* p(i) fails; otherwise both return the values of the successive successful
\* applications of p, in order, and the input left after the last of them.
OneOrMoreZeroOrMore ==
    (pc # "idle" /\ parser.k \in {"one_or_more", "zero_or_more"}
        /\ Productive(parser.parser, input)) =>
        LET p == parser.parser
            first == Apply(p, input)
            c == Chain(p, input)
        IN  /\ Returned
            /\ parser.k = "one_or_more" =>
                  /\ outcome.tag = "Err" <=> first.tag = "Err"
                  /\ outcome.tag = "Ok" =>
                        outcome.val = c.vals /\ outcome.rest = c.rest
            /\ parser.k = "zero_or_more" =>
                  LET o == Apply(OneOrMore(p), input)
                  IN  /\ outcome.tag = "Ok"
                      /\ (outcome.val = <<>> /\ outcome.rest = input) <=> o.tag = "Err"
                      /\ o.tag = "Err" <=> first.tag = "Err"
                      /\ o.tag = "Ok" =>
                            /\ outcome.val = o.val /\ outcome.rest = o.rest
                            /\ outcome.val = c.vals /\ outcome.rest = c.rest

\* two successes, then a failing attempt with input left over
OneOrMoreZeroOrMoreWitness ==
    /\ Returned
    /\ parser.k = "zero_or_more"
    /\ Productive(parser.parser, input)
    /\ outcome.tag = "Ok"
    /\ Len(outcome.val) >= 2
    /\ outcome.rest # <<>>

\* C9: for inner productive, take_while(inner)(i) fails iff i is empty; for
\* non-empty i it returns value i[..k] and remaining input i[k..], k being the
\* bytes consumed by the successive successful probes; so it returns an
\* empty value and i when the first probe fails, and value ++ remaining = i.
\* take_while_1(inner)(i) succeeds iff take_while(inner)(i) succeeds with
\* k >= 1, and returns the same split.
TakeWhileSplit ==
    (pc # "idle" /\ parser.k \in {"take_while", "take_while_1"}
        /\ Productive(parser.parser, input)) =>
        LET inner == parser.parser
            k == ProbeSum(inner, input, 0)
        IN  /\ Returned
            /\ parser.k = "take_while" =>
                  /\ outcome.tag = "Err" <=> input = <<>>
                  /\ input # <<>> =>
                        /\ outcome = Ok(From(input, k), To(input, k))
                        /\ outcome.val \o outcome.rest = input
                        /\ Apply(inner, input).tag = "Err" =>
                              (outcome.val = <<>> /\ outcome.rest = input)
            /\ parser.k = "take_while_1" =>
                  LET tw == Apply(TakeWhile(inner), input)
                  IN  /\ outcome.tag = "Ok" <=> (tw.tag = "Ok" /\ Len(tw.val) >= 1)
                      /\ outcome.tag = "Ok" => outcome = tw
                      /\ outcome.tag = "Ok" =>
                            outcome = Ok(From(input, k), To(input, k))

\* a probe that consumes two bytes, then a failing probe with input left
TakeWhileSplitWitness ==
    /\ Returned
    /\ parser.k = "take_while"
    /\ Productive(parser.parser, input)
    /\ Apply(parser.parser, input).tag = "Ok"
    /\ Len(Apply(parser.parser, input).rest) = Len(input) - 2
    /\ outcome.tag = "Ok"
    /\ outcome.rest # <<>>

\* C10: a loop over a productive parser returns, after at most len(i) + 1
\* applications of it; and once the parser succeeds without consuming on the
\* input the loop of one_or_more has reached, the loop stays there and never
\* returns.
InLoop == pc \in {"one_or_more", "take_while"}
Stuck ==
    /\ pc = "one_or_more"
    /\ Apply(parser.parser, loop.next).tag = "Ok"
    /\ Apply(parser.parser, loop.next).rest = loop.next

LoopTermination ==
    /\ [](((InLoop \/ Returned) /\ Productive(parser.parser, input)) =>
            calls <= Len(input) + 1)
    /\ ((InLoop /\ Productive(parser.parser, input)) ~> Returned)
    /\ [][Stuck => Stuck']_vars

\* a loop that returned after len(i) + 1 applications, the most there can be
LoopTerminationWitness ==
    /\ Returned
    /\ parser.k = "one_or_more"
    /\ Productive(parser.parser, input)
    /\ Len(input) >= 2
    /\ calls = Len(input) + 1

\* a loop that no longer makes progress
LoopStuckWitness == Stuck /\ calls >= 2

====
